---- MODULE Spec2Model ----
(***************************************************************************)
(* Model of build.py: packaging of git repositories with fpm.              *)
(*                                                                         *)
(* Strings are TLA+ strings (sequences of characters).  A JSON / Python    *)
(* value is a record [t, s, l]:                                            *)
(*    t = "str"   s = the text                                             *)
(*    t = "bool"  s = "True" or "False"                                    *)
(*    t = "none"  s = "None"                   (JSON null, Python None)    *)
(*    t = "list"  l = the sequence of elements (each a non-list value)     *)
(* The fpm dict is a sequence of [k, v] pairs in iteration order           *)
(* (insertion order); repos.json and a repo_d are functions on their       *)
(* keys, because the code only ever looks them up or sorts their keys.     *)
(***************************************************************************)
EXTENDS Integers, Sequences, FiniteSets, TLC

VARIABLES
    reposJson,   \* content of repos.json (input)
    gitRefs,     \* repo.refs of every working copy, in GitPython's order (input)
    worktree,    \* paths, relative to the working copy, that the checked out tree holds (input)
    fpmJson,     \* content of every fpm.json that exists (input)
    dirs,        \* directories that exist
    files,       \* regular files that exist
    cwd,         \* the process's current directory
    pc,          \* position in main
    repos,       \* result of parse_repos
    idx,         \* index in repos of the repository main is at
    repo,        \* make_package: the Repo handle returned by prep_repo
    resolution,  \* prep_repo: ref types examined and the reference selected
    rversion,    \* make_package: the version returned by prep_repo
    instdir,     \* gather_instructions: the instructions directory chosen, "" while unbound
    loaded,      \* gather_instructions: whether fpm.json was loaded
    fpm,         \* make_package: the fpm dict, as gather_instructions and run_fpm leave it
    ran,         \* run_fpm: whether the fpm process was started
    cmds,        \* run_fpm: the command handed to subprocess.check_output
    err,         \* the exception that ended the run, "" if none
    log          \* the pipeline steps entered so far, each with its outcome

vars == <<reposJson, gitRefs, worktree, fpmJson, dirs, files, cwd, pc, repos,
          idx, repo, resolution, rversion, instdir, loaded, fpm, ran, cmds, err, log>>

inputs == <<reposJson, gitRefs, worktree, fpmJson>>

----------------------------------------------------------------------------
(* Module constants of build.py *)

GITHUB_GIT == "https://github.com/{fork}/{name}"
PKG_AREA == "/tmp/yoda-packages"
PKG_SUBDIR == "packages"
REPOS_DEFAULT_KW == "DEFAULT"
FPM_JSON == "fpm.json"
CWD == "/build"
DEFAULT_ARCH == "noarch"
DEFAULT_PKG == "rpm"
FPM == "fpm"
ARGS_KW == "ARGS"
DEFAULT_INPUT_TYPE == "dir"
EXCLUDE_DEFAULT == << [t |-> "str", s |-> "*/.git*", l |-> <<>>] >>

----------------------------------------------------------------------------
(* Python values *)

Str(s) == [t |-> "str", s |-> s, l |-> <<>>]
Bool(b) == [t |-> "bool", s |-> IF b THEN "True" ELSE "False", l |-> <<>>]
None == [t |-> "none", s |-> "None", l |-> <<>>]
List(es) == [t |-> "list", s |-> "", l |-> es]

\* isinstance(v, (list, tuple)): json.load only produces lists
IsList(v) == v.t = "list"

\* isinstance(v, bool)
IsBool(v) == v.t = "bool"

\* truth value of a Python object
Truthy(v) ==
    CASE v.t = "bool" -> v.s = "True"
      [] v.t = "none" -> FALSE
      [] v.t = "str"  -> v.s # ""
      [] v.t = "list" -> Len(v.l) > 0

\* x in seq
InSeq(x, seq) == \E i \in 1..Len(seq) : seq[i] = x

\* repr() of a list element, str() of a value: what str.format substitutes
Repr(v) == IF v.t = "str" THEN "'" \o v.s \o "'" ELSE v.s

RECURSIVE JoinRepr(_)
JoinRepr(es) ==
    IF es = <<>> THEN ""
    ELSE IF Len(es) = 1 THEN Repr(es[1])
    ELSE Repr(es[1]) \o ", " \o JoinRepr(Tail(es))

Text(v) == IF v.t = "list" THEN "[" \o JoinRepr(v.l) \o "]" ELSE v.s

\* os.path.join of a directory and a relative name
PathJoin(a, b) == a \o "/" \o b

----------------------------------------------------------------------------
(* str.format with keyword arguments ctx, a function from keys to values.  *)
(* The result                                                              *)
(* is [err, s]: err is "" and s the rendered text, or err names the        *)
(* exception (KeyError for a placeholder that is not in ctx, ValueError    *)
(* for an unmatched brace).                                                *)

\* the least element of a non-empty set of integers
Min(S) == CHOOSE x \in S : \A y \in S : x <= y

\* position of the first character of s at or after i that is in cs, 0 if none
FirstOf(s, i, cs) ==
    LET P == {j \in i..Len(s) : SubSeq(s, j, j) \in cs}
    IN  IF P = {} THEN 0 ELSE Min(P)

RECURSIVE FormatFrom(_, _, _, _)
\* the rendering of s from position i on, out being the text rendered so far
FormatFrom(s, i, ctx, out) ==
    LET b == FirstOf(s, i, {"{", "}"})
    IN  IF b = 0 THEN [err |-> "", s |-> out \o SubSeq(s, i, Len(s))]
        ELSE LET c == SubSeq(s, b, b)
                 n == IF b < Len(s) THEN SubSeq(s, b + 1, b + 1) ELSE ""
                 lit == out \o SubSeq(s, i, b - 1)
             IN  IF c = n THEN FormatFrom(s, b + 2, ctx, lit \o c)
                 ELSE IF c = "}" THEN [err |-> "ValueError", s |-> ""]
                 ELSE LET e == FirstOf(s, b + 1, {"}"})
                          field == SubSeq(s, b + 1, e - 1)
                      IN  IF e = 0 THEN [err |-> "ValueError", s |-> ""]
                          ELSE IF field \notin DOMAIN ctx THEN [err |-> "KeyError", s |-> ""]
                          ELSE FormatFrom(s, e + 1, ctx, lit \o Text(ctx[field]))

Format(s, ctx) == FormatFrom(s, 1, ctx, "")

----------------------------------------------------------------------------
(* The fpm dict: a sequence of [k, v] pairs, keys distinct, in iteration   *)
(* order.                                                                  *)

Keys(d) == {d[i].k : i \in 1..Len(d)}
Has(d, k) == k \in Keys(d)
Get(d, k) == d[CHOOSE i \in 1..Len(d) : d[i].k = k].v

\* d[k] = v: an existing key keeps its place, a new key goes last
SetItem(d, k, v) ==
    IF Has(d, k)
    THEN [i \in 1..Len(d) |-> IF d[i].k = k THEN [k |-> k, v |-> v] ELSE d[i]]
    ELSE Append(d, [k |-> k, v |-> v])

\* d.setdefault(k, v)
SetDefault(d, k, v) == IF Has(d, k) THEN d ELSE Append(d, [k |-> k, v |-> v])

\* d.pop(k) of a key that is present: the dict without it
Pop(d, k) == SelectSeq(d, LAMBDA e : e.k # k)

\* the dict as keyword arguments
AsMap(d) == [k \in Keys(d) |-> Get(d, k)]

----------------------------------------------------------------------------
(* Dicts that are only looked up (repos.json, its entries, a repo_d, the   *)
(* templates) are functions from their keys.                               *)

EmptyDict == << >>
\* d.pop(k, default) leaves the dict without k
Without(d, k) == [x \in DOMAIN d \ {k} |-> d[x]]
\* d.get(k, default) and the value of d.pop(k, default)
GetOr(d, k, default) == IF k \in DOMAIN d THEN d[k] ELSE default
\* a.update(b)
Update(a, b) == [x \in DOMAIN a \cup DOMAIN b |-> IF x \in DOMAIN b THEN b[x] ELSE a[x]]

(* sorted() of string keys: comparison by code point, character by         *)
(* character; Alphabet lists the characters the keys use in ASCII order.   *)
Alphabet == "-./0123456789ABCDEFGHIJKLMNOPQRSTUVWXYZ_abcdefghijklmnopqrstuvwxyz"
Ord(c) == CHOOSE i \in 1..Len(Alphabet) : SubSeq(Alphabet, i, i) = c

StrLess(a, b) ==
    LET n == IF Len(a) < Len(b) THEN Len(a) ELSE Len(b)
        D == {i \in 1..n : SubSeq(a, i, i) # SubSeq(b, i, i)}
    IN  IF D = {} THEN Len(a) < Len(b)
        ELSE LET i == CHOOSE x \in D : \A y \in D : x <= y
             IN  Ord(SubSeq(a, i, i)) < Ord(SubSeq(b, i, i))

RECURSIVE Sorted(_)
Sorted(S) ==
    IF S = {} THEN << >>
    ELSE LET m == CHOOSE x \in S : \A y \in S \ {x} : StrLess(x, y)
         IN  <<m>> \o Sorted(S \ {m})

\* MergeRepo with the entry laid over the name instead of the name over the entry
MergeRepoNameFirst(default, entry, k) ==
    LET tpls == Update(GetOr(default, "templates", EmptyDict),
                       GetOr(entry, "templates", EmptyDict))
        v0 == Update(Without(default, "templates"), [x \in {"name"} |-> Str(k)])
        v1 == Update(v0, Without(entry, "templates"))
    IN  Update(v1, [x \in {"templates"} |-> tpls])

\* parse_repos, the body of the loop: the RepoSpec of key k
MergeRepo(default, entry, k) ==
    LET tpls == Update(GetOr(default, "templates", EmptyDict),
                       GetOr(entry, "templates", EmptyDict))
        v0 == Without(default, "templates")
        v1 == Update(v0, Without(entry, "templates"))
        v2 == Update(v1, [x \in {"name"} |-> Str(k)])
    IN  Update(v2, [x \in {"templates"} |-> tpls])

\* parse_repos: the list of RepoSpecs made from the loaded repos.json
ParseReposOf(json) ==
    LET default == GetOr(json, REPOS_DEFAULT_KW, EmptyDict)
        rest == Without(json, REPOS_DEFAULT_KW)
        ks == Sorted(DOMAIN rest)
    IN  [i \in 1..Len(ks) |-> MergeRepo(default, rest[ks[i]], ks[i])]

----------------------------------------------------------------------------
(* prep_repo *)

NoRef == [kind |-> "", name |-> ""]
NoRepo == [working_dir |-> "", url |-> "", head |-> NoRef]
RefTypes == <<"tag", "branch">>

\* a path strictly below root
IsUnder(p, root) ==
    /\ Len(p) > Len(root) + 1
    /\ SubSeq(p, 1, Len(root) + 1) = root \o "/"

\* ref_version of lines 103-106
RefVersion(repo_d, ref_name) ==
    IF Truthy(GetOr(repo_d, "ref_is_version", Bool(FALSE)))
    THEN IF ref_name # "" /\ Head(ref_name) = "v" THEN Str(Tail(ref_name)) ELSE Str(ref_name)
    ELSE None

RECURSIVE ResolveRef(_, _, _, _)
\* the for loop of lines 94-109 over the remaining ref types
ResolveRef(types, repo_d, refs, examined) ==
    IF types = << >>
    THEN [bound |-> FALSE, ref |-> NoRef, ref_version |-> None, examined |-> examined]
    ELSE LET ref_type == Head(types)
             ref_name == repo_d["ref"].s
             full_name == IF ref_type = "branch" THEN "origin/" \o ref_name ELSE ref_name
             candidates == SelectSeq(refs, LAMBDA r : r.name = full_name)
         IN  IF candidates # << >>
             THEN [bound |-> TRUE, ref |-> candidates[1],
                   ref_version |-> RefVersion(repo_d, ref_name),
                   examined |-> Append(examined, ref_type)]
             ELSE ResolveRef(Tail(types), repo_d, refs, Append(examined, ref_type))

\* lines 89-109: ref stays unbound when there is no 'ref' key or no candidate
Resolve(repo_d, refs) ==
    IF "ref" \in DOMAIN repo_d
    THEN ResolveRef(RefTypes, repo_d, refs, << >>)
    ELSE [bound |-> FALSE, ref |-> NoRef, ref_version |-> None, examined |-> << >>]

\* EffectiveVersion with the derived version taken before the explicit one
EffectiveVersionRefFirst(repo_d, ref_version) ==
    IF ref_version # None THEN ref_version ELSE GetOr(repo_d, "version", None)

\* line 115: version = repo_d.get('version', ref_version)
EffectiveVersion(repo_d, ref_version) == GetOr(repo_d, "version", ref_version)

(* prep_repo(repo_d, wipe) on the file system (ds, fs), with the refs and  *)
(* the tree of the repository and the outcome of git clone.                *)
PrepRepoOf(repo_d, wipe, ds, fs, refs, tree, cloneOk) ==
    LET repo_path == PathJoin(PKG_AREA, repo_d["name"].s)
        url == Format(GITHUB_GIT, repo_d)
        wiped == wipe /\ repo_path \in ds
        ds1 == IF wiped THEN {d \in ds : d # repo_path /\ ~IsUnder(d, repo_path)} ELSE ds
        fs1 == IF wiped THEN {f \in fs : ~IsUnder(f, repo_path)} ELSE fs
        existing == repo_path \in ds1
        ds2 == ds1 \cup {repo_path}
        r == Resolve(repo_d, refs)
        ds3 == ds2 \cup {PathJoin(repo_path, d) : d \in tree.dirs}
        fs3 == fs1 \cup {PathJoin(repo_path, f) : f \in tree.files}
        unresolved == [bound |-> FALSE, ref |-> NoRef, ref_version |-> None,
                       examined |-> << >>]
        failed(e, res, d, f) == [err |-> e, repo |-> NoRepo, version |-> None,
                                 resolution |-> res, dirs |-> d, files |-> f]
    IN  IF url.err # "" THEN failed(url.err, unresolved, ds, fs)
        ELSE IF ~existing /\ ~cloneOk THEN failed("GitCommandError", unresolved, ds1, fs1)
        ELSE IF ~r.bound THEN failed("UnboundLocalError", r, ds2, fs1)
        ELSE [err |-> "",
              repo |-> [working_dir |-> repo_path, url |-> url.s, head |-> r.ref],
              version |-> EffectiveVersion(repo_d, r.ref_version),
              resolution |-> r, dirs |-> ds3, files |-> fs3]

----------------------------------------------------------------------------
(* gather_instructions *)

\* repo.commit(): the commit the head is at
HeadCommit == [committed_date |-> "1500000000",
               hexsha |-> "0a1b2c3d4e5f60718293a4b5c6d7e8f901234567"]

\* the opnames of lines 152-154, in the order the two loops make them
ScriptNames ==
    LET ops == <<"install", "remove", "upgrade">>
        whens == <<"before", "after">>
    IN  [i \in 1..6 |-> whens[((i - 1) % 2) + 1] \o "-" \o ops[((i - 1) \div 2) + 1]]

RECURSIVE AddScripts(_, _, _, _)
\* lines 152-158 from the i-th opname on
AddScripts(d, inst, fs, i) ==
    IF i > Len(ScriptNames) THEN d
    ELSE LET script == PathJoin(inst, ScriptNames[i])
         IN  AddScripts(IF script \in fs THEN SetItem(d, ScriptNames[i], Str(script)) ELSE d,
                        inst, fs, i + 1)

\* lines 160-167
AddDefaults(d, name, rep) ==
    LET d1 == SetDefault(d, "iteration",
                         Str(HeadCommit.committed_date \o "." \o SubSeq(HeadCommit.hexsha, 1, 8)))
        d2 == SetDefault(d1, "url", Str(rep.url))
        d3 == SetDefault(d2, "name", Str(name))
        d4 == SetDefault(d3, "architecture", Str(DEFAULT_ARCH))
    IN  SetDefault(d4, "input-type", Str(DEFAULT_INPUT_TYPE))

\* AppendMissing without the test of line 174
AppendAll(excl, defaults) == excl \o defaults

RECURSIVE AppendMissing(_, _)
\* lines 173-175
AppendMissing(excl, defaults) ==
    IF defaults = << >> THEN excl
    ELSE AppendMissing(IF InSeq(Head(defaults), excl) THEN excl
                       ELSE Append(excl, Head(defaults)),
                       Tail(defaults))

\* lines 170-176: insert default excludes
InsertDefaultExcludes(d) ==
    LET got == IF Has(d, "exclude") THEN Get(d, "exclude") ELSE List(<< >>)
        excl == IF IsList(got) THEN got.l ELSE <<got>>
    IN  SetItem(d, "exclude", List(AppendMissing(excl, EXCLUDE_DEFAULT)))

\* ShortKeys with the length test off by one
ShortKeysBelowOne(json) == {k \in Keys(json) : Len(k) < 1}

\* lines 147-149: the keys that make gather_instructions raise
ShortKeys(json) == {k \in Keys(json) : Len(k) = 1}

(* gather_instructions(name, repo, version) on the file system (ds, fs),    *)
(* rep being the repo argument;                                            *)
(* json is what load_json returns.  The result holds the exception (err),  *)
(* the instructions directory chosen (inst, "" while unbound), whether     *)
(* fpm.json was loaded, and the local fpm as it is when the function ends. *)
GatherOf(name, rep, version, ds, fs, json) ==
    LET ginst == PathJoin(PathJoin(CWD, "instructions"), name)
        linst == PathJoin(rep.working_dir, "packaging")
        inst == IF linst \in ds THEN linst
                ELSE IF ginst \in ds THEN ginst
                ELSE ""
        fpm_json == PathJoin(inst, FPM_JSON)
        short == ShortKeys(json)
        d1 == AddScripts(json, inst, fs, 1)
        d2 == AddDefaults(d1, name, rep)
        d3 == InsertDefaultExcludes(d2)
        d4 == SetDefault(d3, "version", version)
        out(e, i, l, d) == [err |-> e, inst |-> i, loaded |-> l, fpm |-> d]
    IN  IF inst = "" THEN out("UnboundLocalError", "", FALSE, << >>)
        ELSE IF inst \notin ds THEN out("No instructions path found", inst, FALSE, << >>)
        ELSE IF fpm_json \notin fs THEN out("No FPM instructions found", inst, FALSE, << >>)
        ELSE IF short # {} THEN out("Found single letter", inst, TRUE, json)
        ELSE IF Get(d4, "version") = None THEN out("No version", inst, TRUE, d4)
        ELSE out("", inst, TRUE, d4)

----------------------------------------------------------------------------
(* run_fpm *)

\* lines 192, 196-203
BaseCmds ==
    <<FPM, "--force", "--verbose", "--template-scripts",
      "--output-type", DEFAULT_PKG, "--package", PathJoin(PKG_AREA, PKG_SUBDIR)>>

RECURSIVE RenameGeneric(_, _)
\* lines 207-210 for the keys ks
RenameGeneric(d, ks) ==
    IF ks = << >> THEN d
    ELSE LET k == Head(ks)
         IN  RenameGeneric(IF Has(d, k)
                           THEN SetItem(Pop(d, k), DEFAULT_PKG \o "-" \o k, Get(d, k))
                           ELSE d,
                           Tail(ks))

RECURSIVE EmitValuesAnyBool(_, _, _, _)
\* EmitValues with the flag added for a boolean whatever its value
EmitValuesAnyBool(orig_k, origs, ctx, st) ==
    IF origs = << >> \/ st.err # "" THEN st
    ELSE LET orig_v == Head(origs)
             k == "--" \o orig_k
             v == Format(orig_v.s, ctx)
             st1 == IF IsBool(orig_v) THEN [st EXCEPT !.cmds = Append(@, k)]
                    ELSE IF orig_v.t # "str" THEN [st EXCEPT !.err = "AttributeError"]
                    ELSE IF v.err # "" THEN [st EXCEPT !.err = v.err]
                    ELSE IF orig_k = ARGS_KW THEN [st EXCEPT !.args = Append(@, v.s)]
                    ELSE [st EXCEPT !.cmds = @ \o <<k, v.s>>]
         IN  EmitValuesAnyBool(orig_k, Tail(origs), ctx, st1)

RECURSIVE EmitValuesArgsInPlace(_, _, _, _)
\* EmitValues with the ARGS values added to the command where they are met
EmitValuesArgsInPlace(orig_k, origs, ctx, st) ==
    IF origs = << >> \/ st.err # "" THEN st
    ELSE LET orig_v == Head(origs)
             k == "--" \o orig_k
             v == Format(orig_v.s, ctx)
             st1 == IF IsBool(orig_v)
                    THEN IF Truthy(orig_v) THEN [st EXCEPT !.cmds = Append(@, k)] ELSE st
                    ELSE IF orig_v.t # "str" THEN [st EXCEPT !.err = "AttributeError"]
                    ELSE IF v.err # "" THEN [st EXCEPT !.err = v.err]
                    ELSE IF orig_k = ARGS_KW THEN [st EXCEPT !.cmds = Append(@, v.s)]
                    ELSE [st EXCEPT !.cmds = @ \o <<k, v.s>>]
         IN  EmitValuesArgsInPlace(orig_k, Tail(origs), ctx, st1)

RECURSIVE EmitValues(_, _, _, _)
\* lines 217-226 for the elements origs of key orig_k; st is [err, cmds, args]
EmitValues(orig_k, origs, ctx, st) ==
    IF origs = << >> \/ st.err # "" THEN st
    ELSE LET orig_v == Head(origs)
             k == "--" \o orig_k
             v == Format(orig_v.s, ctx)
             st1 == IF IsBool(orig_v)
                    THEN IF Truthy(orig_v) THEN [st EXCEPT !.cmds = Append(@, k)] ELSE st
                    ELSE IF orig_v.t # "str" THEN [st EXCEPT !.err = "AttributeError"]
                    ELSE IF v.err # "" THEN [st EXCEPT !.err = v.err]
                    ELSE IF orig_k = ARGS_KW THEN [st EXCEPT !.args = Append(@, v.s)]
                    ELSE [st EXCEPT !.cmds = @ \o <<k, v.s>>]
         IN  EmitValues(orig_k, Tail(origs), ctx, st1)

RECURSIVE EmitItems(_, _, _)
\* lines 213-226 for the items of d
EmitItems(d, ctx, st) ==
    IF d = << >> \/ st.err # "" THEN st
    ELSE LET origs == IF IsList(Head(d).v) THEN Head(d).v.l ELSE <<Head(d).v>>
         IN  EmitItems(Tail(d), ctx, EmitValues(Head(d).k, origs, ctx, st))

(* run_fpm(fpm, template_data) with the directories ds; exitOk is the      *)
(* outcome of the fpm process.                                             *)
(* The result holds the exception, the fpm dict as run_fpm leaves it, the  *)
(* command (complete only if ran) and whether the process was started.     *)
RunFpmOf(d, template_data, ds, exitOk) ==
    LET ctx == Update(template_data, AsMap(d))
        pkgdir == PathJoin(PKG_AREA, PKG_SUBDIR)
        ds1 == ds \cup {PKG_AREA, pkgdir}
        renamed == RenameGeneric(d, <<"user", "group">>)
        st == EmitItems(renamed, ctx, [err |-> "", cmds |-> BaseCmds, args |-> << >>])
    IN  IF st.err # ""
        THEN [err |-> st.err, fpm |-> renamed, cmds |-> st.cmds, args |-> st.args,
              ran |-> FALSE, dirs |-> ds1]
        ELSE [err |-> IF exitOk THEN "" ELSE "CalledProcessError",
              fpm |-> renamed, cmds |-> st.cmds \o st.args, args |-> st.args,
              ran |-> TRUE, dirs |-> ds1]

----------------------------------------------------------------------------
(* main and make_package, one action per step *)

NoResolution == [bound |-> FALSE, ref |-> NoRef, ref_version |-> None, examined |-> << >>]

\* AfterStep of a main that catches the exception and goes on with the loop
AfterStepCaught(e, nextPc) == IF e = "" THEN nextPc ELSE "loop"

\* nothing in make_package or main catches an exception: a step that raises
\* ends the run, one that returns goes on to the next step
AfterStep(e, nextPc) == IF e = "" THEN nextPc ELSE "failed"

\* the record of a step: the repository, the function entered, its exception
Entry(repo_d, step, e) == [name |-> repo_d["name"].s, step |-> step, err |-> e]

\* line 283: repos = parse_repos()
ParseRepos ==
    /\ pc = "parse"
    /\ repos' = ParseReposOf(reposJson)
    /\ idx' = 1
    /\ pc' = "loop"
    /\ UNCHANGED <<inputs, dirs, files, cwd, repo, resolution, rversion, instdir,
                   loaded, fpm, ran, cmds, err, log>>

\* lines 285-286 and 246-247: the next repo, or the end of the loop
MainLoop ==
    /\ pc = "loop"
    /\ IF idx <= Len(repos)
       THEN /\ cwd' = CWD
            /\ pc' = "prep"
       ELSE /\ cwd' = cwd
            /\ pc' = "done"
    /\ repo' = NoRepo
    /\ resolution' = NoResolution
    /\ rversion' = None
    /\ instdir' = ""
    /\ loaded' = FALSE
    /\ fpm' = << >>
    /\ ran' = FALSE
    /\ cmds' = << >>
    /\ UNCHANGED <<inputs, dirs, files, repos, idx, err, log>>

\* line 248: repo, rversion = prep_repo(repo_d)
PrepRepo ==
    /\ pc = "prep"
    /\ \E cloneOk \in BOOLEAN :
         LET r == PrepRepoOf(repos[idx], FALSE, dirs, files, gitRefs, worktree, cloneOk)
         IN  /\ repo' = r.repo
             /\ rversion' = r.version
             /\ resolution' = r.resolution
             /\ dirs' = r.dirs
             /\ files' = r.files
             /\ err' = r.err
             /\ pc' = AfterStep(r.err, "gather")
             /\ log' = Append(log, Entry(repos[idx], "prep_repo", r.err))
    /\ UNCHANGED <<inputs, cwd, repos, idx, instdir, loaded, fpm, ran, cmds>>

\* line 250: fpm = gather_instructions(name, repo, version=rversion)
GatherInstructions ==
    /\ pc = "gather"
    /\ LET g == GatherOf(repos[idx]["name"].s, repo, rversion, dirs, files, fpmJson)
       IN  /\ instdir' = g.inst
           /\ loaded' = g.loaded
           /\ fpm' = g.fpm
           /\ err' = g.err
           /\ pc' = AfterStep(g.err, "fpm")
           /\ log' = Append(log, Entry(repos[idx], "gather_instructions", g.err))
    /\ UNCHANGED <<inputs, dirs, files, cwd, repos, idx, repo, resolution, rversion,
                   ran, cmds>>

\* lines 252-256: chdir, run_fpm, chdir back; then the next iteration
RunFpm ==
    /\ pc = "fpm"
    /\ \E exitOk \in BOOLEAN :
         LET r == RunFpmOf(fpm, repos[idx]["templates"], dirs, exitOk)
         IN  /\ fpm' = r.fpm
             /\ cmds' = r.cmds
             /\ ran' = r.ran
             /\ dirs' = r.dirs
             /\ err' = r.err
             /\ cwd' = IF r.err = "" THEN CWD ELSE repo.working_dir
             /\ pc' = AfterStep(r.err, "loop")
             /\ idx' = IF r.err = "" THEN idx + 1 ELSE idx
             /\ log' = Append(log, Entry(repos[idx], "run_fpm", r.err))
    /\ UNCHANGED <<inputs, files, repos, repo, resolution, rversion, instdir, loaded>>

Next == ParseRepos \/ MainLoop \/ PrepRepo \/ GatherInstructions \/ RunFpm

----------------------------------------------------------------------------
(* Inputs.  An instructions directory (the packaging directory of the      *)
(* tree, or instructions/<name>) is one of: absent, an empty directory,    *)
(* a directory with fpm.json, one with fpm.json and two scripts.           *)

InstKinds == {"absent", "empty", "json", "scripts"}
InstFiles(kind) ==
    CASE kind = "json" -> {FPM_JSON}
      [] kind = "scripts" -> {FPM_JSON, "before-install", "after-remove"}
      [] OTHER -> {}

\* the tree of the checked out commit
Tree(kind) ==
    [dirs |-> IF kind = "absent" THEN {} ELSE {"packaging"},
     files |-> {PathJoin("packaging", f) : f \in InstFiles(kind)}]

\* Repo.refs lists heads, remote refs and tags sorted by their path;
\* Reference.name is the path without refs/heads/, refs/remotes/ or refs/tags/
RefOfPath(p) ==
    IF Len(p) > 11 /\ SubSeq(p, 1, 11) = "refs/heads/"
    THEN [kind |-> "head", name |-> SubSeq(p, 12, Len(p))]
    ELSE IF Len(p) > 13 /\ SubSeq(p, 1, 13) = "refs/remotes/"
    THEN [kind |-> "remote", name |-> SubSeq(p, 14, Len(p))]
    ELSE [kind |-> "tag", name |-> SubSeq(p, 11, Len(p))]

RefList(paths) ==
    LET ps == Sorted(paths) IN [i \in 1..Len(ps) |-> RefOfPath(ps[i])]

\* a clone always has its default branch and the remote's
BaseRefs == {"refs/heads/master", "refs/remotes/origin/master"}
RefPathsOf(n) == {"refs/heads/" \o n, "refs/remotes/origin/" \o n, "refs/tags/" \o n}

\* the start of main with the given inputs
InitWith(json, refs, treeKind, ginstKind, fj, cloned) ==
    LET names == DOMAIN json \ {REPOS_DEFAULT_KW}
        ginst(n) == PathJoin(PathJoin(CWD, "instructions"), n)
    IN  /\ reposJson = json
        /\ gitRefs = refs
        /\ worktree = Tree(treeKind)
        /\ fpmJson = fj
        /\ dirs = {CWD}
                  \cup (IF cloned THEN {PKG_AREA} \cup {PathJoin(PKG_AREA, n) : n \in names}
                        ELSE {})
                  \cup (IF ginstKind = "absent" THEN {}
                        ELSE {PathJoin(CWD, "instructions")} \cup {ginst(n) : n \in names})
        /\ files = {PathJoin(CWD, "repos.json")}
                   \cup {PathJoin(ginst(n), f) : n \in names, f \in InstFiles(ginstKind)}
        /\ cwd = CWD
        /\ pc = "parse"
        /\ repos = << >>
        /\ idx = 0
        /\ repo = NoRepo
        /\ resolution = NoResolution
        /\ rversion = None
        /\ instdir = ""
        /\ loaded = FALSE
        /\ fpm = << >>
        /\ ran = FALSE
        /\ cmds = << >>
        /\ err = ""
        /\ log = << >>

\* a dict with the optional key k: absent, or one of the values vs
Opt(k, vs) == {EmptyDict} \cup {k :> v : v \in vs}

----------------------------------------------------------------------------
(* Spec: the orchestrator over several repositories.                       *)

MaxRepos == 3
RepoNames == {"davrods", "irods", "yoda", "zabbix"}

DefaultEntries ==
    {EmptyDict,
     REPOS_DEFAULT_KW :> ("fork" :> Str("hpcugent")),
     REPOS_DEFAULT_KW :> [fork |-> Str("hpcugent"), name |-> Str("dflt"),
                          templates |-> [tpl |-> Str("T"), site |-> Str("S")]]}

RepoEntries ==
    {"ref" :> Str("1"),
     EmptyDict,
     [ref |-> Str("1"), fork |-> Str("me"), name |-> Str("other"),
      templates |-> ("tpl" :> Str("U"))]}

ReposJsons ==
    UNION {{d @@ m : d \in DefaultEntries, m \in [S -> RepoEntries]} :
           S \in {T \in SUBSET RepoNames : Cardinality(T) <= MaxRepos}}

Init ==
    \E json \in ReposJsons, cloned \in BOOLEAN,
       fj \in {<< >>, <<[k |-> "version", v |-> Str("3.1")]>>} :
        InitWith(json, RefList(BaseRefs \cup {"refs/tags/1"}), "json", "absent", fj, cloned)

Spec == Init /\ [][Next]_vars

----------------------------------------------------------------------------
(* SpecRepo: one repository, over the RepoSpecs, the refs of the clone,    *)
(* the instructions directories and the fpm.json that decide prep_repo     *)
(* and gather_instructions.                                                *)

RefNames == {"vv1", "1"}

RepoSpecs ==
    {a @@ b @@ c : a \in Opt("ref", {Str(n) : n \in RefNames}),
                   b \in Opt("ref_is_version", {Bool(TRUE), Bool(FALSE)}),
                   c \in Opt("version", {None, Str("2.0")})}

RefLists == {RefList(BaseRefs \cup X) : X \in UNION {SUBSET RefPathsOf(n) : n \in RefNames}}

FpmJsons ==
    {<< >>,
     <<[k |-> "version", v |-> Str("3.1")]>>,
     <<[k |-> "version", v |-> None]>>,
     <<[k |-> "description", v |-> Str("demo")], [k |-> "f", v |-> Bool(TRUE)]>>,
     <<[k |-> "x", v |-> Str("1")], [k |-> "version", v |-> Str("3.1")]>>}

InitRepo ==
    \E spec \in RepoSpecs, refs \in RefLists, treeKind \in InstKinds,
       ginstKind \in InstKinds, fj \in FpmJsons :
        InitWith((REPOS_DEFAULT_KW :> ("fork" :> Str("hpcugent"))) @@ ("yoda" :> spec),
                 refs, treeKind, ginstKind, fj, TRUE)

SpecRepo == InitRepo /\ [][Next]_vars

----------------------------------------------------------------------------
(* SpecFpm: one repository that resolves, over the fpm.json contents and   *)
(* the templates that decide the exclude list and the fpm command.         *)

MaxArgs == 2
MaxExclude == 2

\* the lists of at most n elements of E
RECURSIVE ListsUpTo(_, _)
ListsUpTo(E, n) ==
    IF n = 0 THEN {<< >>}
    ELSE LET shorter == ListsUpTo(E, n - 1)
         IN  shorter \cup {Append(l, e) : l \in shorter, e \in E}

ArgValues ==
    {Str("src")} \cup
    {List(l) : l \in ListsUpTo({Str("{name}.spec"), Str("src"), Bool(TRUE)}, MaxArgs)}

ExcludeValues ==
    {Str("*.pyc"), EXCLUDE_DEFAULT[1], None} \cup
    {List(l) : l \in ListsUpTo({Str("*.pyc"), EXCLUDE_DEFAULT[1]}, MaxExclude)}

FpmItems ==
    {[k |-> ARGS_KW, v |-> v] : v \in ArgValues}
    \cup {[k |-> "exclude", v |-> v] : v \in ExcludeValues}
    \cup {[k |-> "force", v |-> v] : v \in {Bool(TRUE), Bool(FALSE), List(<<Bool(FALSE), Bool(TRUE)>>)}}
    \cup {[k |-> "user", v |-> v] : v \in {Str("root"), Bool(TRUE)}}
    \cup {[k |-> "description", v |-> v] : v \in {Str("pkg-{name}"), Str("{tpl}"), None}}

\* an fpm.json that sets every key gather_instructions has a default for
FullJson ==
    <<[k |-> "iteration", v |-> Str("7")],
      [k |-> "url", v |-> Str("https://example.org")],
      [k |-> "name", v |-> Str("yoda-core")],
      [k |-> "architecture", v |-> Str("x86_64")],
      [k |-> "input-type", v |-> Str("dir")],
      [k |-> "exclude", v |-> List(<<Str("*.pyc")>>)],
      [k |-> "version", v |-> Str("3.1")]>>

DistinctKeys(d) == \A i, j \in 1..Len(d) : i # j => d[i].k # d[j].k

RichFpmJsons ==
    {d \in {b \o x \o y : b \in {<< >>, FullJson},
                          x \in {<< >>} \cup {<<e>> : e \in FpmItems},
                          y \in {<< >>} \cup {<<e>> : e \in FpmItems}} :
        DistinctKeys(d)}

InitFpm ==
    \E tpls \in {EmptyDict, "tpl" :> Str("T")}, fj \in RichFpmJsons,
       treeKind \in {"json", "scripts"} :
        InitWith((REPOS_DEFAULT_KW :> ("fork" :> Str("hpcugent")))
                 @@ ("yoda" :> [ref |-> Str("1"), version |-> Str("2.0"), templates |-> tpls]),
                 RefList(BaseRefs \cup {"refs/tags/1"}), treeKind, "absent", fj, TRUE)

SpecFpm == InitFpm /\ [][Next]_vars

----------------------------------------------------------------------------
(* Properties *)

RepoKeys == DOMAIN reposJson \ {REPOS_DEFAULT_KW}
Steps == <<"prep_repo", "gather_instructions", "run_fpm">>
Last(seq) == seq[Len(seq)]

(* C3: main takes the repositories one at a time in ascending order of     *)
(* name, a repository's steps run in the order prep_repo,                  *)
(* gather_instructions, run_fpm, a repository is started only after        *)
(* run_fpm returned for the one before it, and a step that raises is the   *)
(* last step of the whole run: nothing is prepared, gathered or packaged   *)
(* after it.                                                               *)
C3_SequentialHalt ==
    /\ \A i \in 1..Len(log) :
        /\ i < Len(log) => log[i].err = ""
        /\ i = 1 => /\ log[i].step = "prep_repo"
                    /\ \A n \in RepoKeys : ~StrLess(n, log[i].name)
        /\ i > 1 =>
            \/ /\ log[i].name = log[i - 1].name
               /\ \E j \in 1..2 : log[i - 1].step = Steps[j] /\ log[i].step = Steps[j + 1]
            \/ /\ log[i - 1].step = "run_fpm"
               /\ log[i].step = "prep_repo"
               /\ StrLess(log[i - 1].name, log[i].name)
               /\ \A n \in RepoKeys : ~(StrLess(log[i - 1].name, n) /\ StrLess(n, log[i].name))
    /\ err # "" => pc = "failed" /\ Last(log).err = err
    /\ pc = "done" => Len(log) = 3 * Cardinality(RepoKeys)

\* a run that failed at a repository while a later one was still to come
C3_Witness ==
    /\ pc = "failed"
    /\ idx < Len(repos)
    /\ \E i \in 1..Len(log) : log[i].name # Last(log).name /\ log[i].step = "run_fpm"

(* C6: every RepoSpec parse_repos returns has as name the key of           *)
(* repos.json it was built from (there is one RepoSpec per key, and its    *)
(* other fields are that key's), whatever name DEFAULT or the entry sets.  *)
C6_NameIsKey ==
    pc # "parse" =>
        /\ Len(repos) = Cardinality(RepoKeys)
        /\ {repos[i]["name"] : i \in 1..Len(repos)} = {Str(k) : k \in RepoKeys}
        /\ \A i \in 1..Len(repos) :
             LET k == repos[i]["name"].s
             IN  k \in RepoKeys =>
                   \A f \in DOMAIN reposJson[k] \ {"name", "templates"} :
                       repos[i][f] = reposJson[k][f]

\* parse_repos returned for a repos.json that sets name in DEFAULT and in an entry
C6_Witness ==
    /\ pc = "loop"
    /\ REPOS_DEFAULT_KW \in DOMAIN reposJson
    /\ "name" \in DOMAIN reposJson[REPOS_DEFAULT_KW]
    /\ \E k \in RepoKeys : "name" \in DOMAIN reposJson[k] /\ reposJson[k]["name"] # Str(k)
    /\ \E k \in RepoKeys : "name" \notin DOMAIN reposJson[k]

\* the RepoSpec of the step logged last, and where make_package is after it
Cur == repos[CHOOSE i \in 1..Len(repos) : repos[i]["name"].s = Last(log).name]
AfterPrep == log # << >> /\ Last(log).step = "prep_repo" /\ pc \in {"gather", "failed"}
AfterGather == log # << >> /\ Last(log).step = "gather_instructions" /\ pc \in {"fpm", "failed"}
AfterRun == log # << >> /\ Last(log).step = "run_fpm" /\ pc \in {"loop", "failed"}

HasRef(kind, name) == \E i \in 1..Len(gitRefs) : gitRefs[i] = [kind |-> kind, name |-> name]

(* C8: for a RepoSpec without a ref key prep_repo completes without error  *)
(* and returns the repository handle and, as version, the RepoSpec's       *)
(* explicit version when it has one, unset otherwise.                      *)
C8_NoRefCompletes ==
    (AfterPrep /\ "ref" \notin DOMAIN Cur) =>
        /\ err = ""
        /\ repo.working_dir = PathJoin(PKG_AREA, Cur["name"].s)
        /\ rversion = GetOr(Cur, "version", None)

(* C2: when the repository has a tag named <ref> and a branch              *)
(* origin/<ref>, prep_repo checks out the tag, after examining the ref     *)
(* type tag only.                                                          *)
C2_TagWins ==
    (/\ AfterPrep
     /\ "ref" \in DOMAIN Cur
     /\ HasRef("tag", Cur["ref"].s)
     /\ HasRef("remote", "origin/" \o Cur["ref"].s)) =>
        /\ err = ""
        /\ repo.head = [kind |-> "tag", name |-> Cur["ref"].s]
        /\ resolution.examined = <<"tag">>

(* C10: gather_instructions takes the packaging directory of the working   *)
(* copy when it exists, else instructions/<name> under the invocation      *)
(* root when that exists; when neither exists it fails with "No            *)
(* instructions path found" and loads no fpm.json.                         *)
C10_InstructionsPriority ==
    AfterGather =>
        LET linst == PathJoin(repo.working_dir, "packaging")
            ginst == PathJoin(PathJoin(CWD, "instructions"), Cur["name"].s)
        IN  /\ linst \in dirs => instdir = linst
            /\ (linst \notin dirs /\ ginst \in dirs) => instdir = ginst
            /\ (linst \notin dirs /\ ginst \notin dirs) =>
                   err = "No instructions path found" /\ ~loaded /\ pc = "failed"

(* C4: when the fpm.json that was loaded has a top-level key of length 1,  *)
(* gather_instructions fails with the single-letter error with the dict    *)
(* still as loaded (no script, no default applied), and run_fpm is never   *)
(* entered for that repository: no command is built, no process started.   *)
C4_ShortKeyRejected ==
    (loaded /\ \E k \in Keys(fpmJson) : Len(k) = 1) =>
        /\ err = "Found single letter"
        /\ pc = "failed"
        /\ fpm = fpmJson
        /\ cmds = << >>
        /\ ~ran
        /\ \A i \in 1..Len(log) : log[i].name = Last(log).name => log[i].step # "run_fpm"

\* the single-letter failure in a directory that holds lifecycle scripts
C4_Witness ==
    /\ AfterGather
    /\ err = "Found single letter"
    /\ PathJoin(instdir, "before-install") \in files
    /\ ~Has(fpmJson, "version")

\* the ref name without one leading v
StripV(n) == IF Len(n) > 0 /\ SubSeq(n, 1, 1) = "v" THEN SubSeq(n, 2, Len(n)) ELSE n

\* gather_instructions got as far as the version (line 178)
AtVersion == AfterGather /\ loaded /\ \A k \in Keys(fpmJson) : Len(k) # 1

\* the three sources of the version in order of precedence, each with
\* whether its key is there (has) and its value
VersionSources ==
    <<[has |-> Has(fpmJson, "version"),
       v |-> IF Has(fpmJson, "version") THEN Get(fpmJson, "version") ELSE None],
      [has |-> "version" \in DOMAIN Cur, v |-> GetOr(Cur, "version", None)],
      [has |-> GetOr(Cur, "ref_is_version", Bool(FALSE)) = Bool(TRUE),
       v |-> Str(StripV(Cur["ref"].s))]>>

\* the outcome C1 states, `present' being: the key is there and, unless
\* nullIsPresent, its value is not null
PrecedenceOutcome(nullIsPresent) ==
    LET present(i) == VersionSources[i].has /\ (nullIsPresent \/ VersionSources[i].v # None)
        P == {i \in 1..3 : present(i)}
    IN  IF P = {}
        THEN err = "No version" /\ pc = "failed"
        ELSE /\ err = ""
             /\ Has(fpm, "version")
             /\ Get(fpm, "version") = VersionSources[Min(P)].v

(* C1 as stated: the version of the final package dict is fpm.json's if    *)
(* present, else the RepoSpec's if present, else the one derived from the  *)
(* ref, and gather_instructions fails with the missing-version error when  *)
(* none is present -- under either reading of `present' for a key that is  *)
(* set to null.                                                            *)
C1_PresentWins == AtVersion => (PrecedenceOutcome(TRUE) \/ PrecedenceOutcome(FALSE))

(* C1 amended: precedence goes by the presence of the key (fpm.json's      *)
(* version key, else the RepoSpec's, else the derived version when         *)
(* ref_is_version is true); the final dict has the value so chosen, and    *)
(* gather_instructions fails with the missing-version error when none of   *)
(* the three is there or when the value so chosen is null.                 *)
C1_KeyPrecedence ==
    AtVersion =>
        LET P == {i \in 1..3 : VersionSources[i].has}
            chosen == IF P = {} THEN None ELSE VersionSources[Min(P)].v
        IN  IF chosen = None
            THEN err = "No version" /\ pc = "failed"
            ELSE err = "" /\ Has(fpm, "version") /\ Get(fpm, "version") = chosen

\* the RepoSpec's explicit version won over the version derived from ref vv1
C1_Witness ==
    /\ AtVersion
    /\ err = ""
    /\ ~Has(fpmJson, "version")
    /\ "version" \in DOMAIN Cur
    /\ resolution.ref_version = Str("v1")
    /\ Get(fpm, "version") = Str("2.0")

Count(seq, x) == Cardinality({i \in 1..Len(seq) : seq[i] = x})
Elements(v) == IF v.t = "list" THEN v.l ELSE <<v>>

\* gather_instructions got as far as the exclude list (line 170)
AtExclude == AtVersion

\* the entries of the exclude of fpm.json
GivenExclude ==
    IF Has(fpmJson, "exclude") THEN Elements(Get(fpmJson, "exclude")) ELSE << >>

(* C5: whatever exclude fpm.json has (none, a scalar, a list), the         *)
(* resulting exclude is a list that starts with the given entries in       *)
(* their order, holds each pattern of EXCLUDE_DEFAULT as often as it was   *)
(* given, or once if it was not given, holds nothing else, and is left as  *)
(* it is by a second normalization.                                        *)
C5_ExcludeIdempotent ==
    AtExclude =>
        /\ Has(fpm, "exclude")
        /\ Get(fpm, "exclude").t = "list"
        /\ LET out == Get(fpm, "exclude").l
               missing == {i \in 1..Len(EXCLUDE_DEFAULT) :
                              Count(GivenExclude, EXCLUDE_DEFAULT[i]) = 0}
           IN  /\ Len(out) = Len(GivenExclude) + Cardinality(missing)
               /\ SubSeq(out, 1, Len(GivenExclude)) = GivenExclude
               /\ \A i \in 1..Len(EXCLUDE_DEFAULT) :
                     Count(out, EXCLUDE_DEFAULT[i]) =
                        IF i \in missing THEN 1 ELSE Count(GivenExclude, EXCLUDE_DEFAULT[i])
        /\ InsertDefaultExcludes(fpm) = fpm

\* a list that holds the default pattern twice already, and another entry
C5_Witness ==
    /\ AtExclude
    /\ Has(fpmJson, "exclude")
    /\ Get(fpmJson, "exclude").t = "list"
    /\ Count(GivenExclude, EXCLUDE_DEFAULT[1]) = 2
    /\ Get(fpm, "exclude") = Get(fpmJson, "exclude")

\* run_fpm built the whole command and started fpm
Built == AfterRun /\ ran

Trues(v) == Cardinality({i \in 1..Len(Elements(v)) : Elements(v)[i] = Bool(TRUE)})
NonBools(v) == SelectSeq(Elements(v), LAMBDA e : e.t # "bool")

\* what the item e of the package dict adds to the command before the
\* positional arguments: a flag per true, a flag and a value per other
\* value unless the key is ARGS
OptionLen(e) == Trues(e.v) + (IF e.k = ARGS_KW THEN 0 ELSE 2 * Len(NonBools(e.v)))

RECURSIVE OptionsLen(_)
OptionsLen(d) == IF d = << >> THEN 0 ELSE OptionLen(Head(d)) + OptionsLen(Tail(d))

\* the positional arguments: the non-boolean values of ARGS, rendered
ArgsOf(d) == IF Has(d, ARGS_KW) THEN NonBools(Get(d, ARGS_KW)) ELSE << >>
RenderedArgs ==
    LET ctx == Update(Cur["templates"], AsMap(fpm))
    IN  [i \in 1..Len(ArgsOf(fpm)) |-> Format(ArgsOf(fpm)[i].s, ctx).s]

\* the part of the command between the base flags and the positional arguments
Options == SubSeq(cmds, Len(BaseCmds) + 1, Len(cmds) - Len(ArgsOf(fpm)))

(* C7: in the command run_fpm builds, a key of the package dict has its    *)
(* flag --<key> once per true element and once per other value (never for  *)
(* a false), a boolean adds nothing but that flag (the options are as      *)
(* long as the flags of the trues plus the flag and value pairs of the     *)
(* other values), and no boolean is rendered as text.                      *)
C7_BooleanFlags ==
    Built =>
        /\ Len(cmds) = Len(BaseCmds) + OptionsLen(fpm) + Len(ArgsOf(fpm))
        /\ \A i \in 1..Len(fpm) :
             Count(Options, "--" \o fpm[i].k) =
                Trues(fpm[i].v) + (IF fpm[i].k = ARGS_KW THEN 0 ELSE Len(NonBools(fpm[i].v)))
        /\ \A i \in 1..Len(cmds) : cmds[i] \notin {"True", "False"}

\* a command built from a dict with a false, and a list with a false and a true
C7_Witness ==
    /\ Built
    /\ \E i \in 1..Len(fpm) : fpm[i].v = Bool(FALSE)
    /\ \E i \in 1..Len(fpm) : fpm[i].v.t = "list" /\ Trues(fpm[i].v) > 0
    /\ Count(Options, "--force") = 0

\* the command ends with the rendered ARGS values in their order, after the
\* base flags and the options of all keys, and they appear nowhere else
ArgsAreSuffix ==
    /\ SubSeq(cmds, 1, Len(BaseCmds)) = BaseCmds
    /\ Len(cmds) = Len(BaseCmds) + OptionsLen(fpm) + Len(ArgsOf(fpm))
    /\ SubSeq(cmds, Len(cmds) - Len(ArgsOf(fpm)) + 1, Len(cmds)) = RenderedArgs

ArgPositions == (Len(cmds) - Len(ArgsOf(fpm)) + 1)..Len(cmds)

(* C9 as stated: the rendered non-boolean ARGS values are the suffix of    *)
(* the command, in their order, and none of them is preceded by an --ARGS  *)
(* flag.                                                                   *)
C9_ArgsNeverAfterFlag ==
    Built => /\ ArgsAreSuffix
             /\ \A p \in ArgPositions : cmds[p - 1] # "--" \o ARGS_KW

(* C9 amended: the rendered non-boolean ARGS values are the suffix of the  *)
(* command, in their order, and the only one that can come right after an  *)
(* --ARGS flag is the first, when ARGS also holds a boolean true, whose    *)
(* bare flag is then the last option of the command.                       *)
C9_ArgsSuffix ==
    Built => /\ ArgsAreSuffix
             /\ \A p \in ArgPositions :
                  cmds[p - 1] = "--" \o ARGS_KW =>
                     /\ p = Len(cmds) - Len(ArgsOf(fpm)) + 1
                     /\ Trues(Get(fpm, ARGS_KW)) > 0

\* two ARGS values, one of them templated, from a dict where ARGS comes
\* before the other keys
C9_Witness ==
    /\ Built
    /\ fpm[1].k = ARGS_KW
    /\ Len(fpm) > 1
    /\ Len(ArgsOf(fpm)) = 2
    /\ ArgsOf(fpm)[1] = Str("{name}.spec")
    /\ SubSeq(cmds, Len(cmds) - 1, Len(cmds)) = <<"yoda.spec", "src">>

====
